---------------------------- MODULE Spec2Model ----------------------------
(***************************************************************************)
(* Model of the io_uring sequential file reader, src/main.c.               *)
(*                                                                         *)
(* main() is one thread of control; its position is pc and each action is  *)
(* one statement (or one if-block) of main().  The kernel is the other     *)
(* process: KernelComplete takes a submitted read request and posts its    *)
(* completion.  The submission queue sq, the requests in the kernel        *)
(* (inflight) and the completion queue cq model the ring that liburing     *)
(* maintains for io_uring_get_sqe / io_uring_submit / io_uring_wait_cqe /  *)
(* io_uring_cqe_seen.                                                      *)
(***************************************************************************)
EXTENDS Integers, Sequences, FiniteSets, TLC

\* ------------------------------------------------------------------ bounds
\* Largest file size explored (bytes).
MaxFileSize == 10

\* ------------------------------------------------------- program constants
EXIT_SUCCESS == 0
EXIT_ERROR == 1
QUEUE_DEPTH == 2
CUSTOM_BLOCK_SIZE == 1024 * 4
\* Length argument of io_uring_prep_read (main.c:55).
READ_LEN == 1
\* errno values that the model lets the environment report.
ENOBUFS == 105
EIO == 5
EINTR == 4
EBUSY == 16
ENOMEM == 12

\* Negative results a completion may carry (cqe->res < 0).
CompletionErrs == {-EIO, -ENOBUFS}
\* Negative returns of io_uring_submit, io_uring_wait_cqe, io_uring_queue_init.
SubmitErrs == {-EBUSY}
WaitErrs == {-EINTR}
InitErrs == {-ENOMEM}

\* Value of `reported` while the summary line has not been printed.
NotReported == -1
\* Value of exitStatus while main() has not returned.
Running == -1
\* Descriptor returned by a successful open(); -1 on failure.
FdValue == 3
\* The NUL byte, at which printf's %s conversion stops.
NUL == 0

Min(a, b) == IF a < b THEN a ELSE b

\* The file explored for size n: bytes 1,2,0,1,2,0,... (it contains NUL bytes).
FileOfSize(n) == [i \in 1..n |-> i % 3]

VARIABLES
  pc,                \* position of main()
  argc,              \* number of command-line words (program name included)
  file,              \* content of the file named by argv[1]
  ringState,         \* "uninit" | "live" | "exited"
  fdOpen,            \* TRUE while the descriptor is open in the kernel
  fd,                \* main.c:17
  ret,               \* main.c:18
  sq,                \* SQEs handed out by get_sqe and not yet submitted
  inflight,          \* requests consumed by the kernel, not yet completed
  cq,                \* posted completions not yet marked seen (head = oldest)
  cqe,               \* main.c:20: <<res>> of the CQE that cqe points at, or <<>>
  buffer,            \* main.c:16: the initialised prefix of buffer[]
  bytes_read,        \* main.c:86
  bytes_read_total,  \* main.c:21
  offset,            \* main.c:22
  banner,            \* "Reading file ..." printed
  out,               \* payload bytes written to stdout by main.c:93
  reported,          \* total printed by main.c:101, or NotReported
  stderr,            \* diagnostics, in order
  exitStatus,        \* value returned by main(), or Running
  \* history variables
  opens,             \* successful open() calls
  closes,            \* close(fd) calls
  ringInits,         \* successful io_uring_queue_init calls
  ringExits,         \* io_uring_queue_exit calls
  nSubmitted,        \* requests accepted by the kernel
  completions,       \* results of the completions returned by wait_cqe
  nSeen,             \* io_uring_cqe_seen calls
  acted              \* what main() has done with the current completion

vars == <<pc, argc, file, ringState, fdOpen, fd, ret, sq, inflight, cq, cqe,
          buffer, bytes_read, bytes_read_total, offset, banner, out, reported,
          stderr, exitStatus, opens, closes, ringInits, ringExits, nSubmitted,
          completions, nSeen, acted>>

\* Groups of variables, for UNCHANGED clauses.
ioVars == <<banner, out, reported>>
ringVars == <<sq, inflight, cq>>
countVars == <<bytes_read, bytes_read_total, offset>>
resVars == <<ringState, fdOpen, opens, closes, ringInits, ringExits>>
histVars == <<nSubmitted, completions, nSeen, acted>>
inputVars == <<argc, file>>

Init ==
  /\ pc = "start"
  /\ argc \in {1, 2}
  /\ file \in {FileOfSize(n) : n \in 0..MaxFileSize}
  /\ ringState = "uninit"
  /\ fdOpen = FALSE
  /\ fd = -1
  /\ ret = 0
  /\ sq = <<>>
  /\ inflight = <<>>
  /\ cq = <<>>
  /\ cqe = <<>>
  /\ buffer = <<>>
  /\ bytes_read = 0
  /\ bytes_read_total = 0
  /\ offset = 0
  /\ banner = FALSE
  /\ out = <<>>
  /\ reported = NotReported
  /\ stderr = <<>>
  /\ exitStatus = Running
  /\ opens = 0
  /\ closes = 0
  /\ ringInits = 0
  /\ ringExits = 0
  /\ nSubmitted = 0
  /\ completions = <<>>
  /\ nSeen = 0
  /\ acted = {}


\* ------------------------------------------------------------ pure helpers
\* printf("%.*s", n, buf): at most n bytes of buf, stopping before a NUL.
PrintfS(buf, n) ==
  LET lim == Min(n, Len(buf))
      nuls == {i \in 1..lim : buf[i] = NUL}
      stop == IF nuls = {} THEN lim
              ELSE (CHOOSE i \in nuls : \A j \in nuls : i <= j) - 1
  IN SubSeq(buf, 1, stop)

\* The bytes a read of req.len bytes at req.off transfers from the file.
KernelRead(req) ==
  IF req.off >= Len(file) THEN <<>>
  ELSE SubSeq(file, req.off + 1, req.off + Min(req.len, Len(file) - req.off))

\* buffer[] after the kernel stored data at its start.
StoreInBuffer(data) ==
  data \o SubSeq(buffer, Len(data) + 1, Len(buffer))

\* Sum of the byte counts of the Success completions in a history.
RECURSIVE SumSuccess(_)
SumSuccess(h) ==
  IF h = <<>> THEN 0
  ELSE (IF Head(h) > 0 THEN Head(h) ELSE 0) + SumSuccess(Tail(h))

\* io_uring_get_sqe returns NULL when the submission queue holds QUEUE_DEPTH
\* entries that the kernel has not consumed.
SqFull == Len(sq) >= QUEUE_DEPTH

\* ------------------------------------------------------ shared statements
\* return <status> from main().
Return(status) ==
  /\ pc' = "exited"
  /\ exitStatus' = status

\* close(fd).
CloseFd ==
  /\ fdOpen' = FALSE
  /\ closes' = closes + 1

\* io_uring_queue_exit(&ring): the ring and everything queued in it is gone.
QueueExitRing ==
  /\ ringState' = "exited"
  /\ ringExits' = ringExits + 1
  /\ sq' = <<>>
  /\ inflight' = <<>>
  /\ cq' = <<>>

\* io_uring_cqe_seen(&ring, cqe): the head of the completion queue is released.
CqeSeen ==
  /\ cq' = Tail(cq)
  /\ nSeen' = nSeen + 1

\* fprintf(stderr, ...) of the diagnostic named tag.
Diag(tag) == stderr' = Append(stderr, tag)

\* ---------------------------------------------------- main(): before the loop
\* main.c:24-29
CheckArgs ==
  /\ pc = "start"
  /\ IF argc < 2
       THEN /\ Diag("usage")
            /\ Return(EXIT_ERROR)
       ELSE /\ pc' = "queue_init"
            /\ UNCHANGED <<stderr, exitStatus>>
  /\ UNCHANGED <<inputVars, resVars, fd, ret, ringVars, cqe, buffer, countVars,
                 ioVars, histVars>>

\* main.c:31-35
QueueInit ==
  /\ pc = "queue_init"
  /\ \E r \in {0} \cup InitErrs :
       /\ ret' = r
       /\ IF r < 0
            THEN /\ Diag("queue_init")
                 /\ Return(EXIT_ERROR)
                 /\ UNCHANGED <<ringState, ringInits>>
            ELSE /\ ringState' = "live"
                 /\ ringInits' = ringInits + 1
                 /\ pc' = "open"
                 /\ UNCHANGED <<stderr, exitStatus>>
  /\ UNCHANGED <<inputVars, fdOpen, opens, closes, ringExits, fd, ringVars, cqe,
                 buffer, countVars, ioVars, histVars>>

\* main.c:37-39 and 44
OpenFile ==
  /\ pc = "open"
  /\ \/ /\ fd' = FdValue
        /\ fdOpen' = TRUE
        /\ opens' = opens + 1
        /\ banner' = TRUE
        /\ pc' = "get_sqe"
        /\ UNCHANGED stderr
     \/ /\ fd' = -1
        /\ Diag("open")
        /\ pc' = "open_fail_exit"
        /\ UNCHANGED <<fdOpen, opens, banner>>
  /\ UNCHANGED <<inputVars, ringState, closes, ringInits, ringExits, ret,
                 ringVars, cqe, buffer, countVars, out, reported, exitStatus,
                 histVars>>

\* OpenFailExit that forgets io_uring_queue_exit.
OpenFailExitNoTeardown ==
  /\ pc = "open_fail_exit"
  /\ Return(EXIT_ERROR)
  /\ UNCHANGED <<inputVars, resVars, fd, ret, ringVars, cqe, buffer, countVars,
                 ioVars, stderr, histVars>>

\* main.c:40-41
OpenFailExit ==
  /\ pc = "open_fail_exit"
  /\ QueueExitRing
  /\ Return(EXIT_ERROR)
  /\ UNCHANGED <<inputVars, fdOpen, opens, closes, ringInits, fd, ret, cqe,
                 buffer, countVars, ioVars, stderr, histVars>>

\* ------------------------------------------------------ main(): the read loop
\* A slot handed out by io_uring_get_sqe, before it is prepared.
BlankSqe == [fd |-> -1, len |-> 0, off |-> 0]

\* main.c:48-53: sqe is NULL
GetSqeNull ==
  /\ Diag("get_sqe")
  /\ CloseFd
  /\ QueueExitRing
  /\ Return(EXIT_ERROR)
  /\ UNCHANGED <<inputVars, opens, ringInits, fd, ret, cqe, buffer, countVars,
                 ioVars, histVars>>

\* main.c:47-53
GetSqe ==
  /\ pc = "get_sqe"
  /\ IF SqFull
       THEN GetSqeNull
       ELSE /\ sq' = Append(sq, BlankSqe)
            /\ pc' = "prep"
            /\ UNCHANGED <<inputVars, resVars, fd, ret, inflight, cq, cqe,
                           buffer, countVars, ioVars, stderr, exitStatus,
                           histVars>>

\* PrepRead asking for a whole buffer instead of one byte.
PrepReadBlock ==
  /\ pc = "prep"
  /\ sq' = [sq EXCEPT ![Len(sq)] =
              [fd |-> fd, len |-> CUSTOM_BLOCK_SIZE, off |-> offset]]
  /\ pc' = "submit"
  /\ UNCHANGED <<inputVars, resVars, fd, ret, inflight, cq, cqe, buffer,
                 countVars, ioVars, stderr, exitStatus, histVars>>

\* main.c:55
PrepRead ==
  /\ pc = "prep"
  /\ sq' = [sq EXCEPT ![Len(sq)] = [fd |-> fd, len |-> READ_LEN, off |-> offset]]
  /\ pc' = "submit"
  /\ UNCHANGED <<inputVars, resVars, fd, ret, inflight, cq, cqe, buffer,
                 countVars, ioVars, stderr, exitStatus, histVars>>

\* Submit after which the submitted entry still occupies its slot of the
\* submission queue.
SubmitKeepsSqe ==
  /\ pc = "submit"
  /\ \E r \in {Len(sq)} \cup SubmitErrs :
       /\ ret' = r
       /\ IF r < 0
            THEN /\ Diag("submit")
                 /\ pc' = "submit_close"
                 /\ UNCHANGED <<sq, inflight, nSubmitted>>
            ELSE /\ inflight' = Append(inflight, sq[Len(sq)])
                 /\ sq' = sq
                 /\ nSubmitted' = nSubmitted + 1
                 /\ pc' = "wait"
                 /\ UNCHANGED stderr
  /\ UNCHANGED <<inputVars, resVars, fd, cq, cqe, buffer, countVars, ioVars,
                 exitStatus, completions, nSeen, acted>>

\* Submit after which main() reads the buffer without waiting for the
\* completion.
SubmitSkipsWait ==
  /\ pc = "submit"
  /\ \E r \in {Len(sq)} \cup SubmitErrs :
       /\ ret' = r
       /\ IF r < 0
            THEN /\ Diag("submit")
                 /\ pc' = "submit_close"
                 /\ UNCHANGED <<sq, inflight, nSubmitted>>
            ELSE /\ inflight' = inflight \o sq
                 /\ sq' = <<>>
                 /\ nSubmitted' = nSubmitted + Len(sq)
                 /\ pc' = "emit"
                 /\ UNCHANGED stderr
  /\ UNCHANGED <<inputVars, resVars, fd, cq, cqe, buffer, countVars, ioVars,
                 exitStatus, completions, nSeen, acted>>

\* Submit that goes back for another slot while the queue has room, instead
\* of waiting for the completion of the request just submitted.
SubmitPipelined ==
  /\ pc = "submit"
  /\ \E r \in {Len(sq)} \cup SubmitErrs :
       /\ ret' = r
       /\ IF r < 0
            THEN /\ Diag("submit")
                 /\ pc' = "submit_close"
                 /\ UNCHANGED <<sq, inflight, nSubmitted>>
            ELSE /\ inflight' = inflight \o sq
                 /\ sq' = <<>>
                 /\ nSubmitted' = nSubmitted + Len(sq)
                 /\ pc' = IF Len(inflight') + Len(cq) < QUEUE_DEPTH
                            THEN "get_sqe" ELSE "wait"
                 /\ UNCHANGED stderr
  /\ UNCHANGED <<inputVars, resVars, fd, cq, cqe, buffer, countVars, ioVars,
                 exitStatus, completions, nSeen, acted>>

\* main.c:57-59
Submit ==
  /\ pc = "submit"
  /\ \E r \in {Len(sq)} \cup SubmitErrs :
       /\ ret' = r
       /\ IF r < 0
            THEN /\ Diag("submit")
                 /\ pc' = "submit_close"
                 /\ UNCHANGED <<sq, inflight, nSubmitted>>
            ELSE /\ inflight' = inflight \o sq
                 /\ sq' = <<>>
                 /\ nSubmitted' = nSubmitted + Len(sq)
                 /\ pc' = "wait"
                 /\ UNCHANGED stderr
  /\ UNCHANGED <<inputVars, resVars, fd, cq, cqe, buffer, countVars, ioVars,
                 exitStatus, completions, nSeen, acted>>

\* main.c:60
SubmitFailClose ==
  /\ pc = "submit_close"
  /\ CloseFd
  /\ pc' = "submit_qexit"
  /\ UNCHANGED <<inputVars, ringState, opens, ringInits, ringExits, fd, ret,
                 ringVars, cqe, buffer, countVars, ioVars, stderr, exitStatus,
                 histVars>>

\* main.c:61-62
SubmitFailExit ==
  /\ pc = "submit_qexit"
  /\ QueueExitRing
  /\ Return(EXIT_ERROR)
  /\ UNCHANGED <<inputVars, fdOpen, opens, closes, ringInits, fd, ret, cqe,
                 buffer, countVars, ioVars, stderr, histVars>>

\* main.c:65-67: returns the oldest posted completion; blocks while there is
\* none, unless the wait itself fails.
WaitCqe ==
  /\ pc = "wait"
  /\ \/ /\ cq # <<>>
        /\ ret' = 0
        /\ cqe' = <<Head(cq)>>
        /\ completions' = Append(completions, Head(cq))
        /\ acted' = {}
        /\ pc' = "check_res"
        /\ UNCHANGED stderr
     \/ /\ cq = <<>>
        /\ \E r \in WaitErrs : ret' = r
        /\ Diag("wait")
        /\ pc' = "wait_close"
        /\ UNCHANGED <<cqe, completions, acted>>
  /\ UNCHANGED <<inputVars, resVars, fd, ringVars, buffer, countVars, ioVars,
                 exitStatus, nSubmitted, nSeen>>

\* WaitFailClose that forgets close(fd).
WaitFailNoClose ==
  /\ pc = "wait_close"
  /\ pc' = "wait_qexit"
  /\ UNCHANGED <<inputVars, resVars, fd, ret, ringVars, cqe, buffer, countVars,
                 ioVars, stderr, exitStatus, histVars>>

\* main.c:68
WaitFailClose ==
  /\ pc = "wait_close"
  /\ CloseFd
  /\ pc' = "wait_qexit"
  /\ UNCHANGED <<inputVars, ringState, opens, ringInits, ringExits, fd, ret,
                 ringVars, cqe, buffer, countVars, ioVars, stderr, exitStatus,
                 histVars>>

\* main.c:69-70
WaitFailExit ==
  /\ pc = "wait_qexit"
  /\ QueueExitRing
  /\ Return(EXIT_ERROR)
  /\ UNCHANGED <<inputVars, fdOpen, opens, closes, ringInits, fd, ret, cqe,
                 buffer, countVars, ioVars, stderr, histVars>>

\* CheckRes that treats -ENOBUFS as transient: it acknowledges the completion
\* and goes round the loop again.
CheckResRetryEnobufs ==
  /\ pc = "check_res"
  /\ IF cqe[1] = -ENOBUFS
       THEN /\ pc' = "seen"
            /\ UNCHANGED bytes_read
       ELSE IF cqe[1] < 0
         THEN /\ pc' = "err_diag"
              /\ UNCHANGED bytes_read
         ELSE /\ bytes_read' = cqe[1]
              /\ pc' = IF cqe[1] = 0 THEN "eof_seen" ELSE "emit"
  /\ UNCHANGED <<inputVars, resVars, fd, ret, ringVars, cqe, buffer,
                 bytes_read_total, offset, ioVars, stderr, exitStatus, histVars>>

\* main.c:73, 86, 88: the three-way branch on cqe->res
CheckRes ==
  /\ pc = "check_res"
  /\ IF cqe[1] < 0
       THEN /\ pc' = "err_diag"
            /\ UNCHANGED bytes_read
       ELSE /\ bytes_read' = cqe[1]
            /\ pc' = IF cqe[1] = 0 THEN "eof_seen" ELSE "emit"
  /\ UNCHANGED <<inputVars, resVars, fd, ret, ringVars, cqe, buffer,
                 bytes_read_total, offset, ioVars, stderr, exitStatus, histVars>>

\* ErrDiag comparing cqe->res with ENOBUFS instead of -ENOBUFS.
ErrDiagWrongSign ==
  /\ pc = "err_diag"
  /\ Diag(IF cqe[1] = ENOBUFS THEN "read_enobufs" ELSE "read")
  /\ acted' = acted \cup {"diag"}
  /\ pc' = "err_seen"
  /\ UNCHANGED <<inputVars, resVars, fd, ret, ringVars, cqe, buffer, countVars,
                 ioVars, exitStatus, nSubmitted, completions, nSeen>>

\* ErrDiag that prints nothing.
ErrDiagSilent ==
  /\ pc = "err_diag"
  /\ pc' = "err_seen"
  /\ UNCHANGED <<inputVars, resVars, fd, ret, ringVars, cqe, buffer, countVars,
                 ioVars, stderr, exitStatus, histVars>>

\* main.c:74-79
ErrDiag ==
  /\ pc = "err_diag"
  /\ Diag(IF cqe[1] = -ENOBUFS THEN "read_enobufs" ELSE "read")
  /\ acted' = acted \cup {"diag"}
  /\ pc' = "err_seen"
  /\ UNCHANGED <<inputVars, resVars, fd, ret, ringVars, cqe, buffer, countVars,
                 ioVars, exitStatus, nSubmitted, completions, nSeen>>

\* ErrSeen that forgets io_uring_cqe_seen.
ErrSeenNoAck ==
  /\ pc = "err_seen"
  /\ pc' = "err_close"
  /\ UNCHANGED <<inputVars, resVars, fd, ret, ringVars, cqe, buffer, countVars,
                 ioVars, stderr, exitStatus, histVars>>

\* main.c:80
ErrSeen ==
  /\ pc = "err_seen"
  /\ CqeSeen
  /\ pc' = "err_close"
  /\ UNCHANGED <<inputVars, resVars, fd, ret, sq, inflight, cqe, buffer,
                 countVars, ioVars, stderr, exitStatus, nSubmitted, completions,
                 acted>>

\* main.c:81
ErrClose ==
  /\ pc = "err_close"
  /\ CloseFd
  /\ pc' = "err_qexit"
  /\ UNCHANGED <<inputVars, ringState, opens, ringInits, ringExits, fd, ret,
                 ringVars, cqe, buffer, countVars, ioVars, stderr, exitStatus,
                 histVars>>

\* ErrExit returning EXIT_SUCCESS.
ErrExitSuccess ==
  /\ pc = "err_qexit"
  /\ QueueExitRing
  /\ Return(EXIT_SUCCESS)
  /\ UNCHANGED <<inputVars, fdOpen, opens, closes, ringInits, fd, ret, cqe,
                 buffer, countVars, ioVars, stderr, histVars>>

\* main.c:82-83
ErrExit ==
  /\ pc = "err_qexit"
  /\ QueueExitRing
  /\ Return(EXIT_ERROR)
  /\ UNCHANGED <<inputVars, fdOpen, opens, closes, ringInits, fd, ret, cqe,
                 buffer, countVars, ioVars, stderr, histVars>>

\* EofSeen that breaks out of the loop without io_uring_cqe_seen.
EofBreakNoAck ==
  /\ pc = "eof_seen"
  /\ pc' = "report"
  /\ UNCHANGED <<inputVars, resVars, fd, ret, ringVars, cqe, buffer, countVars,
                 ioVars, stderr, exitStatus, histVars>>

\* main.c:89-90
EofSeen ==
  /\ pc = "eof_seen"
  /\ CqeSeen
  /\ pc' = "report"
  /\ UNCHANGED <<inputVars, resVars, fd, ret, sq, inflight, cqe, buffer,
                 countVars, ioVars, stderr, exitStatus, nSubmitted, completions,
                 acted>>

\* main.c:93
Emit ==
  /\ pc = "emit"
  /\ out' = out \o PrintfS(buffer, bytes_read)
  /\ acted' = acted \cup {"emit"}
  /\ pc' = "add_total"
  /\ UNCHANGED <<inputVars, resVars, fd, ret, ringVars, cqe, buffer, countVars,
                 banner, reported, stderr, exitStatus, nSubmitted, completions,
                 nSeen>>

\* AddTotal with `=` written for `+=`.
AddTotalAssign ==
  /\ pc = "add_total"
  /\ bytes_read_total' = bytes_read
  /\ acted' = acted \cup {"total"}
  /\ pc' = "add_offset"
  /\ UNCHANGED <<inputVars, resVars, fd, ret, ringVars, cqe, buffer, bytes_read,
                 offset, ioVars, stderr, exitStatus, nSubmitted, completions,
                 nSeen>>

\* main.c:95
AddTotal ==
  /\ pc = "add_total"
  /\ bytes_read_total' = bytes_read_total + bytes_read
  /\ acted' = acted \cup {"total"}
  /\ pc' = "add_offset"
  /\ UNCHANGED <<inputVars, resVars, fd, ret, ringVars, cqe, buffer, bytes_read,
                 offset, ioVars, stderr, exitStatus, nSubmitted, completions,
                 nSeen>>

\* AddOffset advancing one byte too far.
AddOffsetOffByOne ==
  /\ pc = "add_offset"
  /\ offset' = offset + bytes_read + 1
  /\ acted' = acted \cup {"offset"}
  /\ pc' = "seen"
  /\ UNCHANGED <<inputVars, resVars, fd, ret, ringVars, cqe, buffer, bytes_read,
                 bytes_read_total, ioVars, stderr, exitStatus, nSubmitted,
                 completions, nSeen>>

\* main.c:96
AddOffset ==
  /\ pc = "add_offset"
  /\ offset' = offset + bytes_read
  /\ acted' = acted \cup {"offset"}
  /\ pc' = "seen"
  /\ UNCHANGED <<inputVars, resVars, fd, ret, ringVars, cqe, buffer, bytes_read,
                 bytes_read_total, ioVars, stderr, exitStatus, nSubmitted,
                 completions, nSeen>>

\* Seen that forgets io_uring_cqe_seen.
SeenNoAck ==
  /\ pc = "seen"
  /\ pc' = "get_sqe"
  /\ UNCHANGED <<inputVars, resVars, fd, ret, ringVars, cqe, buffer, countVars,
                 ioVars, stderr, exitStatus, histVars>>

\* main.c:98
Seen ==
  /\ pc = "seen"
  /\ CqeSeen
  /\ pc' = "get_sqe"
  /\ UNCHANGED <<inputVars, resVars, fd, ret, sq, inflight, cqe, buffer,
                 countVars, ioVars, stderr, exitStatus, nSubmitted, completions,
                 acted>>

\* ------------------------------------------------- main(): after the loop
\* main.c:101
Report ==
  /\ pc = "report"
  /\ reported' = bytes_read_total
  /\ pc' = "close"
  /\ UNCHANGED <<inputVars, resVars, fd, ret, ringVars, cqe, buffer, countVars,
                 banner, out, stderr, exitStatus, histVars>>

\* main.c:103
CloseDone ==
  /\ pc = "close"
  /\ CloseFd
  /\ pc' = "queue_exit"
  /\ UNCHANGED <<inputVars, ringState, opens, ringInits, ringExits, fd, ret,
                 ringVars, cqe, buffer, countVars, ioVars, stderr, exitStatus,
                 histVars>>

\* main.c:104-106
ExitDone ==
  /\ pc = "queue_exit"
  /\ QueueExitRing
  /\ Return(EXIT_SUCCESS)
  /\ UNCHANGED <<inputVars, fdOpen, opens, closes, ringInits, fd, ret, cqe,
                 buffer, countVars, ioVars, stderr, histVars>>

\* ------------------------------------------------------------- the kernel
\* An unresponsive device: the kernel never posts the completion.
KernelSilent ==
  /\ FALSE
  /\ UNCHANGED vars

\* The kernel finishes the oldest submitted read: it stores the bytes in the
\* buffer of the request and posts a completion whose res is their number, or
\* it posts a negative errno and stores nothing.
KernelComplete ==
  /\ ringState = "live"
  /\ inflight # <<>>
  /\ LET data == KernelRead(Head(inflight)) IN
       \/ /\ cq' = Append(cq, Len(data))
          /\ buffer' = StoreInBuffer(data)
       \/ /\ \E e \in CompletionErrs : cq' = Append(cq, e)
          /\ UNCHANGED buffer
  /\ inflight' = Tail(inflight)
  /\ UNCHANGED <<pc, inputVars, resVars, fd, ret, sq, cqe, countVars, ioVars,
                 stderr, exitStatus, histVars>>

\* ------------------------------------------------------- the specifications
Next ==
  \/ CheckArgs \/ QueueInit \/ OpenFile \/ OpenFailExit
  \/ GetSqe \/ PrepRead \/ Submit \/ SubmitFailClose \/ SubmitFailExit
  \/ WaitCqe \/ WaitFailClose \/ WaitFailExit
  \/ CheckRes \/ ErrDiag \/ ErrSeen \/ ErrClose \/ ErrExit
  \/ EofSeen \/ Emit \/ AddTotal \/ AddOffset \/ Seen
  \/ Report \/ CloseDone \/ ExitDone
  \/ KernelComplete

Spec == Init /\ [][Next]_vars

\* The same program with a fault injected into io_uring_get_sqe: it may return
\* NULL whatever the queue holds, which drives main.c:48-53.
InjectGetSqeNull ==
  /\ pc = "get_sqe"
  /\ GetSqeNull

NextInject == Next \/ InjectGetSqeNull

SpecInject == Init /\ [][NextInject]_vars

\* Every variable has the shape the program gives it.
TypeOK ==
  /\ pc \in {"start", "queue_init", "open", "open_fail_exit", "get_sqe", "prep",
             "submit", "submit_close", "submit_qexit", "wait", "wait_close",
             "wait_qexit", "check_res", "err_diag", "err_seen", "err_close",
             "err_qexit", "eof_seen", "emit", "add_total", "add_offset", "seen",
             "report", "close", "queue_exit", "exited"}
  /\ ringState \in {"uninit", "live", "exited"}
  /\ fdOpen \in BOOLEAN
  /\ Len(sq) <= QUEUE_DEPTH
  /\ Len(buffer) <= CUSTOM_BLOCK_SIZE
  /\ bytes_read >= 0 /\ bytes_read_total >= 0 /\ offset >= 0
  /\ exitStatus \in {Running, EXIT_SUCCESS, EXIT_ERROR}
  /\ acted \subseteq {"diag", "emit", "total", "offset"}

\* ------------------------------------------------------------- the claims
\* The last completion that wait_cqe returned, when there is one.
LastCompletion == completions[Len(completions)]
\* The run has observed an EndOfFile completion.
SawEof == completions # <<>> /\ LastCompletion = 0
\* The run has observed a completion with a negative result.
SawError == completions # <<>> /\ LastCompletion < 0
\* Completions returned by wait_cqe and not yet marked seen.
Unacked == Len(completions) - nSeen
\* Requests submitted whose completion wait_cqe has not returned.
InFlight == nSubmitted - Len(completions)
\* main() holds a completion it has not finished handling.
HandlingPcs == {"check_res", "err_diag", "err_seen", "eof_seen", "emit",
                "add_total", "add_offset", "seen"}

\* C1: once an EndOfFile completion is observed, the Success byte counts
\* observed before it add up to the file size, and a run that ended that way
\* has reported the file size as its total.
C1_TotalEqualsFileSize ==
  /\ SawEof => SumSuccess(completions) = Len(file)
  /\ (SawEof /\ pc = "exited") => reported = Len(file)

C1_Witness ==
  /\ pc = "exited"
  /\ SawEof
  /\ Len(file) >= 3
  /\ reported = Len(file)

\* C2: offset starts at 0; wherever a request is acquired, prepared,
\* submitted or awaited it equals the sum of the Success byte counts so far
\* and equals bytes_read_total; it never decreases, and the only step that
\* changes it is main.c:96 after a Success(n), which adds exactly n (so
\* EndOfFile, error completions, and get_sqe/submit/wait failures leave it).
C2_OffsetStep ==
  /\ pc = "start" => offset = 0
  /\ pc' \in {"get_sqe", "prep", "submit", "wait"} =>
       /\ offset' = SumSuccess(completions')
       /\ offset' = bytes_read_total'
  /\ offset' >= offset
  /\ offset' # offset =>
       /\ pc = "add_offset"
       /\ LastCompletion > 0
       /\ offset' = offset + LastCompletion

C2_OffsetTracksSuccesses == [][C2_OffsetStep]_vars

C2_Witness ==
  /\ pc = "prep"
  /\ offset = 3
  /\ completions = <<1, 1, 1>>
  /\ bytes_read_total = 3

\* C3: at most one request is in flight at any time: the requests submitted
\* outnumber the completions returned by wait_cqe by at most one, and the
\* ring never holds more than one request or completion.
C3_AtMostOneInFlight ==
  /\ InFlight \in {0, 1}
  /\ Len(sq) + Len(inflight) + Len(cq) <= 1

C3_Witness ==
  /\ InFlight = 1
  /\ Len(completions) >= 2
  /\ Len(inflight) = 1

\* C4: the descriptor is never closed and the ring never torn down more
\* often than they were acquired, and a run that opened the file has, when
\* main() returns, closed the descriptor exactly once and torn the ring
\* down exactly once.
C4_ReleasedExactlyOnce ==
  /\ closes <= opens
  /\ ringExits <= ringInits
  /\ opens <= 1
  /\ (pc = "exited" /\ opens = 1) =>
       /\ closes = 1
       /\ ringExits = 1
       /\ ~fdOpen
       /\ ringState = "exited"

C4_Witness ==
  /\ pc = "exited"
  /\ opens = 1
  /\ closes = 1
  /\ ringExits = 1
  /\ stderr = <<"read">>
  /\ Len(completions) >= 2

\* C5: a run that ended on a completion with a negative result has a
\* non-zero exit status and has reported the total accumulated so far.
C5_PartialTotalReported ==
  (pc = "exited" /\ SawError) =>
    /\ exitStatus # EXIT_SUCCESS
    /\ reported = SumSuccess(completions)

\* C6: at every submission no completion returned by wait_cqe is still
\* unacknowledged, and the completion queue is empty.
C6_AckedBeforeSubmit ==
  pc = "submit" => (Unacked = 0 /\ cq = <<>>)

C6_Witness ==
  /\ pc = "submit"
  /\ nSeen >= 2

\* C7: every completion returned by wait_cqe is acknowledged exactly once:
\* acknowledgments never outnumber completions, at most the completion being
\* handled is unacknowledged, and once main() has left the handling of a
\* completion (next iteration, summary, cleanup, exit) none is.
C7_AckedExactlyOnce ==
  /\ nSeen <= Len(completions)
  /\ Unacked <= 1
  /\ pc \notin HandlingPcs => Unacked = 0

C7_Witness ==
  /\ pc = "exited"
  /\ SawError
  /\ LastCompletion = -ENOBUFS
  /\ nSeen = Len(completions)
  /\ nSeen >= 2

\* C8 as stated: whenever main() has acted on the current completion (emitted
\* its bytes, advanced total or offset, printed its diagnostic) the completion
\* has already been acknowledged.
C8_AckBeforeActing ==
  acted # {} => Unacked = 0

\* C8 as amended: each acknowledgment comes after main() has acted on the
\* completion when it is a Success (bytes emitted, total and offset advanced)
\* or an Error (diagnostic printed), and before anything is done only for
\* EndOfFile; nothing is done with a Success or Error after its
\* acknowledgment, and the summary is printed only with nothing unacknowledged.
C8_AckStep ==
  /\ nSeen' # nSeen =>
       /\ nSeen' = nSeen + 1
       /\ Unacked = 1
       /\ LastCompletion > 0 => acted = {"emit", "total", "offset"}
       /\ LastCompletion < 0 => acted = {"diag"}
       /\ LastCompletion = 0 => (acted = {} /\ reported = NotReported)
  /\ (acted' # acted /\ acted' # {}) => (Unacked = 1 /\ nSeen' = nSeen)
  /\ reported' # reported => Unacked = 0

C8_AckAfterActing == [][C8_AckStep]_vars

C8_Witness ==
  /\ pc = "err_close"
  /\ acted = {"diag"}
  /\ Unacked = 0
  /\ Len(completions) >= 2
  /\ out # <<>>

\* C9: when main() has returned, the exit status is 0 exactly when the run
\* ended on an EndOfFile completion, and it is non-zero exactly when one
\* fatal condition was diagnosed: missing argument, queue-init failure, open
\* failure, slot exhaustion, submit error, wait error, negative completion.
C9_ExitStatus ==
  pc = "exited" =>
    /\ exitStatus = EXIT_SUCCESS <=> SawEof
    /\ exitStatus # EXIT_SUCCESS <=>
         stderr \in {<<"usage">>, <<"queue_init">>, <<"open">>, <<"get_sqe">>,
                     <<"submit">>, <<"wait">>, <<"read">>, <<"read_enobufs">>}
    /\ exitStatus = EXIT_SUCCESS => stderr = <<>>

C9_Witness ==
  /\ pc = "exited"
  /\ exitStatus = EXIT_SUCCESS
  /\ Len(file) = 0
  /\ SawEof

\* C10: a run over a file of N bytes that met no error has observed exactly
\* N+1 completions, N Success(1) followed by one EndOfFile, and has reported
\* a total of N.
C10_CompletionCount ==
  (pc = "exited" /\ argc >= 2 /\ stderr = <<>>) =>
    /\ completions =
         [i \in 1..(Len(file) + 1) |-> IF i <= Len(file) THEN 1 ELSE 0]
    /\ reported = Len(file)

C10_Witness ==
  /\ pc = "exited"
  /\ Len(file) = 10
  /\ Len(completions) = 11
  /\ SumSuccess(completions) = 10
  /\ reported = 10


\* C11 as stated: wherever main() is between two completions, the payload
\* written to stdout so far is exactly the first offset bytes of the file,
\* whatever their values.
C11_EmittedVerbatim ==
  pc \notin {"add_total", "add_offset"} => out = SubSeq(file, 1, offset)

\* A phase of the run has failed: a diagnostic was printed, or the current
\* completion carries a negative result whose diagnostic comes next.
Failed == stderr # <<>> \/ SawError
\* Positions of main() on the way out after a failure.
CleanupPcs == {"open_fail_exit", "submit_close", "submit_qexit", "wait_close",
               "wait_qexit", "check_res", "err_diag", "err_seen", "err_close",
               "err_qexit", "exited"}

\* C12: the failure of a phase prints the diagnostic of that phase; once a
\* phase has failed no request is acquired, prepared or submitted any more,
\* main() only moves through its cleanup, no second diagnostic appears, and
\* when it returns the exit status is non-zero.
C12_FailStep ==
  /\ (pc = "get_sqe" /\ pc' \notin {"get_sqe", "prep"}) =>
       (stderr' = <<"get_sqe">> /\ pc' = "exited")
  /\ (pc = "submit" /\ ret' < 0) => (stderr' = <<"submit">> /\ pc' = "submit_close")
  /\ (pc = "wait" /\ ret' < 0) => (stderr' = <<"wait">> /\ pc' = "wait_close")
  /\ (pc = "check_res" /\ cqe[1] < 0) => pc' = "err_diag"
  /\ (pc = "err_diag" /\ pc' # pc) => stderr' \in {<<"read">>, <<"read_enobufs">>}
  /\ Failed =>
       /\ pc' \in CleanupPcs \ {"check_res"}
       /\ nSubmitted' = nSubmitted
       /\ sq' = sq \/ sq' = <<>>
       /\ Len(completions') = Len(completions)
       /\ stderr' = stderr \/ (pc = "err_diag" /\ stderr = <<>>)
  /\ (Failed' /\ pc' = "exited") => (exitStatus' # EXIT_SUCCESS /\ Len(stderr') = 1)

C12_NoRetry == [][C12_FailStep]_vars

C12_Witness ==
  /\ pc = "exited"
  /\ stderr = <<"read_enobufs">>
  /\ exitStatus = EXIT_ERROR
  /\ nSubmitted = 3
  /\ completions = <<1, 1, -ENOBUFS>>

\* C13: with no argument nothing is ever initialised, opened or released;
\* after a failed queue init nothing is opened and nothing is released; after
\* a failed open the ring, initialised once, is torn down exactly once before
\* main() returns and no descriptor is closed.
C13_EarlyFailures ==
  /\ argc < 2 => (ringInits = 0 /\ opens = 0 /\ closes = 0 /\ ringExits = 0)
  /\ stderr = <<"usage">> => argc < 2
  /\ stderr = <<"queue_init">> =>
       (ringInits = 0 /\ opens = 0 /\ closes = 0 /\ ringExits = 0
        /\ ringState = "uninit" /\ pc = "exited")
  /\ stderr = <<"open">> =>
       /\ ringInits = 1 /\ opens = 0 /\ closes = 0 /\ ~fdOpen
       /\ pc = "exited" => (ringExits = 1 /\ ringState = "exited")
       /\ pc # "exited" => (ringExits = 0 /\ ringState = "live")

C13_Witness ==
  /\ pc = "exited"
  /\ stderr = <<"open">>
  /\ ringInits = 1
  /\ ringExits = 1
  /\ closes = 0

\* C14: whenever main() asks for a submission slot the submission queue
\* holds no unsubmitted entry, so it is not full; the queue never holds
\* QUEUE_DEPTH entries and the "Cannot get sqe" branch is never taken.
C14_SlotAlwaysFree ==
  /\ pc = "get_sqe" => (sq = <<>> /\ ~SqFull)
  /\ Len(sq) < QUEUE_DEPTH
  /\ \A i \in 1..Len(stderr) : stderr[i] # "get_sqe"

C14_Witness ==
  /\ pc = "get_sqe"
  /\ nSubmitted >= 2
  /\ nSeen = nSubmitted
  /\ sq = <<>>

\* C15: main() reads the buffer (main.c:93) only when no request is in the
\* kernel or waiting to be submitted; the kernel stores into the buffer only
\* while main() is in or past io_uring_wait_cqe without a completion in hand;
\* and at every submission the bytes of the last Success have been emitted.
C15_BufferStep ==
  /\ pc = "emit" => (inflight = <<>> /\ sq = <<>> /\ InFlight = 0)
  /\ buffer' # buffer => (pc \in {"wait", "wait_close", "wait_qexit"} /\ pc' = pc)
  /\ (pc = "submit" /\ completions # <<>> /\ LastCompletion > 0) =>
       ("emit" \in acted /\ cq = <<>>)

C15_BufferOrdered == [][C15_BufferStep]_vars

C15_Witness ==
  /\ pc = "emit"
  /\ Len(completions) >= 2
  /\ inflight = <<>>
  /\ Len(buffer) = READ_LEN

\* C16: the branch on cqe->res sends r > 0 to the emit/advance path with
\* bytes_read = r (and the loop then continues), r = 0 to the normal end of
\* the loop, and r < 0 to the error path; there -ENOBUFS, and no other
\* value, gets the "out of buffers" message; every negative result ends in
\* the same close, queue exit and EXIT_ERROR, and EndOfFile in EXIT_SUCCESS.
C16_DecodeStep ==
  /\ (pc = "check_res" /\ cqe[1] > 0) => (pc' = "emit" /\ bytes_read' = cqe[1])
  /\ (pc = "check_res" /\ cqe[1] = 0) => pc' = "eof_seen"
  /\ (pc = "check_res" /\ cqe[1] < 0) => pc' = "err_diag"
  /\ (pc = "seen" /\ pc' # pc) => (LastCompletion > 0 /\ pc' = "get_sqe")
  /\ (pc = "eof_seen" /\ pc' # pc) => (LastCompletion = 0 /\ pc' = "report")
  /\ (pc = "err_diag" /\ pc' # pc) =>
       /\ LastCompletion < 0
       /\ LastCompletion = -ENOBUFS <=> stderr' = <<"read_enobufs">>
       /\ LastCompletion # -ENOBUFS <=> stderr' = <<"read">>
  /\ (pc' = "exited" /\ SawError) =>
       (exitStatus' = EXIT_ERROR /\ closes' = 1 /\ ringExits' = 1 /\ Unacked' = 0)
  /\ (pc' = "exited" /\ SawEof) => exitStatus' = EXIT_SUCCESS

C16_Decoder == [][C16_DecodeStep]_vars

C16_Witness ==
  /\ pc = "err_seen"
  /\ cqe = <<-ENOBUFS>>
  /\ stderr = <<"read_enobufs">>
  /\ Len(completions) >= 2

\* ------------------------------------------------------------- liveness
\* A step of main().
MainStep ==
  \/ CheckArgs \/ QueueInit \/ OpenFile \/ OpenFailExit
  \/ GetSqe \/ PrepRead \/ Submit \/ SubmitFailClose \/ SubmitFailExit
  \/ WaitCqe \/ WaitFailClose \/ WaitFailExit
  \/ CheckRes \/ ErrDiag \/ ErrSeen \/ ErrClose \/ ErrExit
  \/ EofSeen \/ Emit \/ AddTotal \/ AddOffset \/ Seen
  \/ Report \/ CloseDone \/ ExitDone

\* main() is inside io_uring_wait_cqe and no completion has been posted.
Blocked == pc = "wait" /\ cq = <<>>

\* A step main() takes on its own: any step but the return of a blocked
\* io_uring_wait_cqe (which needs the kernel, or a failure of the wait).
Progress == MainStep /\ ~Blocked

\* main() keeps running while it is not blocked, and the kernel eventually
\* posts a completion for every request submitted to it.
SpecFair == Init /\ [][Next]_vars /\ WF_vars(Progress) /\ WF_vars(KernelComplete)

\* C17: under that fairness every run reaches the return of main(); at every
\* position but the wait (and the end) main() can take a step on its own;
\* main() blocks only with its one request in the kernel, and a blocked wait
\* is left only through a completion posted by the kernel or through a
\* failure of the wait itself, for which there is no deadline.
C17_BlockedStep ==
  (Blocked /\ pc' # pc) => (pc' = "wait_close" /\ ret' < 0)

C17_OnlyWaitBlocks ==
  /\ <>(pc = "exited")
  /\ [](pc \notin {"wait", "exited"} => ENABLED Progress)
  /\ [](Blocked => (Len(inflight) = 1 /\ ENABLED KernelComplete))
  /\ [][C17_BlockedStep]_vars

C17_Witness ==
  /\ Blocked
  /\ Len(inflight) = 1
  /\ Len(completions) >= 2
  /\ exitStatus = Running

\* C18: at every io_uring_queue_exit no completion returned by wait_cqe is
\* unacknowledged; on the wait-error path the submitted request is still in
\* flight (never returned by wait_cqe, never acknowledged) both at close(fd)
\* and at io_uring_queue_exit; on every other path nothing is in flight and
\* the completion queue is empty when the ring is torn down.
C18_TeardownStep ==
  /\ ringExits' # ringExits =>
       /\ Unacked = 0
       /\ IF pc = "wait_qexit"
            THEN InFlight = 1 /\ Len(inflight) + Len(cq) = 1 /\ ~fdOpen
            ELSE InFlight = 0 /\ inflight = <<>> /\ cq = <<>>
  /\ (closes' # closes /\ pc = "wait_close") =>
       (InFlight = 1 /\ Len(inflight) + Len(cq) = 1 /\ Unacked = 0)
  /\ (closes' # closes /\ pc # "wait_close") =>
       (InFlight = 0 /\ inflight = <<>> /\ cq = <<>> /\ Unacked = 0)

C18_TeardownInFlight == [][C18_TeardownStep]_vars

C18_Witness ==
  /\ pc = "exited"
  /\ stderr = <<"wait">>
  /\ InFlight = 1
  /\ nSeen = Len(completions)
  /\ Len(completions) >= 1
  /\ ringExits = 1

=============================================================================
